---- MODULE Spec2Model ----
(***************************************************************************)
(* rio-editor (src/src/main.rs): the Editor reducer `update`, the three    *)
(* asynchronous effects load_file / pick_file / save_file run by the iced  *)
(* runtime, and the text_editor::Content buffer they share.                *)
(***************************************************************************)
EXTENDS Integers, Sequences, FiniteSets, Bags, TLC

VARIABLES content, error, path, inflight, fs, msg, located

vars == <<content, error, path, inflight, fs, msg, located>>

(***************************************************************************)
(* Bounds of the model.                                                    *)
(***************************************************************************)
MaxInflight == 2

MaxLines == 1

MaxLen == 1

(* The buffers of BufferSpec: at most MaxBufLines lines of at most         *)
(* MaxBufLen characters.                                                   *)
MaxBufLines == 2

MaxBufLen == 2

Chars == {"a"}

NL == "\n"

(* The paths the file dialogs can return; default_file() is one of them.   *)
Paths == {"main.rs"}

default_file == "main.rs"

(* The contents a file can have before the editor first writes it.         *)
InitialFiles == {<<"a">>}

(***************************************************************************)
(* Option<T>: None is the empty sequence, Some(x) the one-element one.     *)
(***************************************************************************)
None == <<>>

Some(x) == <<x>>

(***************************************************************************)
(* enum Error { DialogError, IoError(io::ErrorKind) }                      *)
(***************************************************************************)
DialogError == [tag |-> "DialogError", kind |-> ""]

IoError(kind) == [tag |-> "IoError", kind |-> kind]

IoKinds == {"NotFound", "PermissionDenied"}

Errors == {DialogError} \cup {IoError(k) : k \in IoKinds}

(***************************************************************************)
(* Result<_, Error>, with every field present in both variants.            *)
(***************************************************************************)
OkOpened(p, c) == [ok |-> TRUE, path |-> p, content |-> c, error |-> DialogError]

OkSaved(p) == [ok |-> TRUE, path |-> p, content |-> <<>>, error |-> DialogError]

Err(e) == [ok |-> FALSE, path |-> "", content |-> <<>>, error |-> e]

NoResult == [ok |-> FALSE, path |-> "", content |-> <<>>, error |-> DialogError]

(***************************************************************************)
(* text_editor::Content: the lines of the document and the cursor, both    *)
(* 0-based.  A text is a sequence of characters, NL separating lines.      *)
(***************************************************************************)
RECURSIVE SplitLines(_, _)
SplitLines(s, cur) ==
    IF s = <<>> THEN <<cur>>
    ELSE IF Head(s) = NL THEN <<cur>> \o SplitLines(Tail(s), <<>>)
    ELSE SplitLines(Tail(s), Append(cur, Head(s)))

RECURSIVE JoinLines(_)
JoinLines(ls) ==
    IF Len(ls) = 1 THEN ls[1]
    ELSE ls[1] \o <<NL>> \o JoinLines(Tail(ls))

Content_new == [lines |-> << <<>> >>, cursor |-> [line |-> 0, column |-> 0]]

Content_with(s) == [lines |-> SplitLines(s, <<>>), cursor |-> [line |-> 0, column |-> 0]]

Content_text(c) == JoinLines(c.lines)

Min(a, b) == IF a < b THEN a ELSE b

Actions ==
    {[edit |-> "Insert", ch |-> c] : c \in Chars}
    \cup {[edit |-> e, ch |-> ""] :
            e \in {"Enter", "Backspace", "Delete", "Left", "Right", "Up", "Down"}}

NoAction == [edit |-> "", ch |-> ""]

Content_edit(c, action) ==
    LET l  == c.cursor.line + 1
        k  == c.cursor.column
        ls == c.lines
        ln == ls[l]
        n  == Len(ls)
        At(i, j) == [line |-> i - 1, column |-> j]
    IN  CASE action.edit = "Insert" ->
               [lines  |-> [ls EXCEPT ![l] = SubSeq(ln, 1, k) \o <<action.ch>>
                                              \o SubSeq(ln, k + 1, Len(ln))],
                cursor |-> At(l, k + 1)]
          [] action.edit = "Enter" ->
               [lines  |-> SubSeq(ls, 1, l - 1)
                             \o <<SubSeq(ln, 1, k), SubSeq(ln, k + 1, Len(ln))>>
                             \o SubSeq(ls, l + 1, n),
                cursor |-> At(l + 1, 0)]
          [] action.edit = "Backspace" ->
               IF k > 0
               THEN [lines  |-> [ls EXCEPT ![l] = SubSeq(ln, 1, k - 1)
                                                   \o SubSeq(ln, k + 1, Len(ln))],
                     cursor |-> At(l, k - 1)]
               ELSE IF l > 1
               THEN [lines  |-> SubSeq(ls, 1, l - 2) \o <<ls[l - 1] \o ln>>
                                  \o SubSeq(ls, l + 1, n),
                     cursor |-> At(l - 1, Len(ls[l - 1]))]
               ELSE c
          [] action.edit = "Delete" ->
               IF k < Len(ln)
               THEN [c EXCEPT !.lines[l] = SubSeq(ln, 1, k) \o SubSeq(ln, k + 2, Len(ln))]
               ELSE IF l < n
               THEN [c EXCEPT !.lines = SubSeq(ls, 1, l - 1) \o <<ln \o ls[l + 1]>>
                                          \o SubSeq(ls, l + 2, n)]
               ELSE c
          [] action.edit = "Left" ->
               [c EXCEPT !.cursor = At(l, IF k > 0 THEN k - 1 ELSE 0)]
          [] action.edit = "Right" ->
               [c EXCEPT !.cursor = At(l, Min(k + 1, Len(ln)))]
          [] action.edit = "Up" ->
               IF l > 1 THEN [c EXCEPT !.cursor = At(l - 1, Min(k, Len(ls[l - 1])))]
               ELSE c
          [] action.edit = "Down" ->
               IF l < n THEN [c EXCEPT !.cursor = At(l + 1, Min(k, Len(ls[l + 1])))]
               ELSE c
          [] OTHER -> c

(* The buffers the model keeps: at most MaxLines lines of at most MaxLen.  *)
Fits(c) ==
    /\ Len(c.lines) <= MaxLines
    /\ \A i \in 1..Len(c.lines) : Len(c.lines[i]) <= MaxLen

(***************************************************************************)
(* The asynchronous functions.  Each is the set of outcomes the future can *)
(* resolve to, given the files present when it runs; the file dialog's     *)
(* answer and the failures of the file system are its inputs.              *)
(***************************************************************************)
load_file_noContent(p, files) ==
    IF files[p] = None
    THEN {Err(IoError("NotFound"))}
    ELSE {OkOpened(p, <<>>), Err(IoError("PermissionDenied"))}

load_file(p, files) ==
    IF files[p] = None
    THEN {Err(IoError("NotFound"))}
    ELSE {OkOpened(p, files[p][1]), Err(IoError("PermissionDenied"))}

pick_file(files) ==
    {Err(DialogError)} \cup UNION {load_file(p, files) : p \in Paths}

save_file_noCancel(p, text, files) ==
    LET picked == IF p # None THEN {Some(p[1])}
                  ELSE {Some(default_file)} \cup {Some(q) : q \in Paths}
        write(q) == {[result |-> OkSaved(q), files |-> [files EXCEPT ![q] = Some(text)]],
                     [result |-> Err(IoError("PermissionDenied")), files |-> files]}
    IN  UNION {write(h[1]) : h \in picked}

save_file(p, text, files) ==
    LET picked == IF p # None THEN {Some(p[1])}
                  ELSE {None} \cup {Some(q) : q \in Paths}
        write(q) == {[result |-> OkSaved(q), files |-> [files EXCEPT ![q] = Some(text)]],
                     [result |-> Err(IoError("PermissionDenied")), files |-> files]}
    IN  UNION {IF h = None
               THEN {[result |-> Err(DialogError), files |-> files]}
               ELSE write(h[1]) : h \in picked}

(***************************************************************************)
(* Command<Message>: nothing, or one future with the message constructor   *)
(* its output is wrapped in.                                               *)
(***************************************************************************)
Command_none == None

Command_perform(future, p, text, message) ==
    Some([future |-> future, path |-> p, text |-> text, message |-> message])

(***************************************************************************)
(* Editor::new and Editor::update.  An Editor is [content, error, path];   *)
(* update returns the Editor after the message and the Command.            *)
(***************************************************************************)
Editor_new_noLoad ==
    [state   |-> [content |-> Content_new, error |-> None, path |-> None],
     command |-> Command_none]

Editor_new ==
    [state   |-> [content |-> Content_new, error |-> None, path |-> None],
     command |-> Command_perform("load_file", Some(default_file), <<>>, "FileOpened")]

update_Edit_keepError(self, action) ==
    [state   |-> [self EXCEPT !.content = Content_edit(self.content, action)],
     command |-> Command_none]

update_Edit(self, action) ==
    [state   |-> [self EXCEPT !.content = Content_edit(self.content, action),
                              !.error = None],
     command |-> Command_none]

update_New_clearError(self) ==
    [state   |-> [self EXCEPT !.path = None, !.content = Content_new, !.error = None],
     command |-> Command_none]

update_New_keepCursor(self) ==
    [state   |-> [self EXCEPT !.path = None,
                              !.content = [lines  |-> Content_new.lines,
                                           cursor |-> self.content.cursor]],
     command |-> Command_none]

update_New(self) ==
    [state   |-> [self EXCEPT !.path = None, !.content = Content_new],
     command |-> Command_none]

update_Open(self) ==
    [state   |-> self,
     command |-> Command_perform("pick_file", None, <<>>, "FileOpened")]

update_FileOpened_keepEdits(self, result) ==
    IF result.ok
    THEN IF self.content # Content_new
         THEN [state |-> self, command |-> Command_none]
         ELSE [state   |-> [self EXCEPT !.path = Some(result.path),
                                        !.content = Content_with(result.content)],
               command |-> Command_none]
    ELSE [state   |-> [self EXCEPT !.error = Some(result.error)],
          command |-> Command_none]

update_FileOpened_resetOnError(self, result) ==
    IF result.ok
    THEN [state   |-> [self EXCEPT !.path = Some(result.path),
                                   !.content = Content_with(result.content)],
          command |-> Command_none]
    ELSE [state   |-> [self EXCEPT !.error = Some(result.error),
                                   !.content = Content_new],
          command |-> Command_none]

update_FileOpened_keepPath(self, result) ==
    IF result.ok
    THEN [state   |-> [self EXCEPT !.content = Content_with(result.content)],
          command |-> Command_none]
    ELSE [state   |-> [self EXCEPT !.error = Some(result.error)],
          command |-> Command_none]

update_FileOpened(self, result) ==
    IF result.ok
    THEN [state   |-> [self EXCEPT !.path = Some(result.path),
                                   !.content = Content_with(result.content)],
          command |-> Command_none]
    ELSE [state   |-> [self EXCEPT !.error = Some(result.error)],
          command |-> Command_none]

update_Save_alwaysPick(self) ==
    [state   |-> self,
     command |-> Command_perform("save_file", None, Content_text(self.content),
                                 "FileSaved")]

update_Save(self) ==
    [state   |-> self,
     command |-> Command_perform("save_file", self.path, Content_text(self.content),
                                 "FileSaved")]

update_FileSaved_retry(self, result) ==
    IF result.ok
    THEN [state   |-> [self EXCEPT !.path = Some(result.path)],
          command |-> Command_none]
    ELSE [state   |-> [self EXCEPT !.error = Some(result.error)],
          command |-> Command_perform("save_file", self.path,
                                      Content_text(self.content), "FileSaved")]

update_FileSaved_resetBuffer(self, result) ==
    IF result.ok
    THEN [state   |-> [self EXCEPT !.path = Some(result.path),
                                   !.content = Content_with(Content_text(self.content))],
          command |-> Command_none]
    ELSE [state   |-> [self EXCEPT !.error = Some(result.error)],
          command |-> Command_none]

update_FileSaved(self, result) ==
    IF result.ok
    THEN [state   |-> [self EXCEPT !.path = Some(result.path)],
          command |-> Command_none]
    ELSE [state   |-> [self EXCEPT !.error = Some(result.error)],
          command |-> Command_none]

update(self, message) ==
    CASE message.type = "Edit"       -> update_Edit(self, message.action)
      [] message.type = "New"        -> update_New(self)
      [] message.type = "Open"       -> update_Open(self)
      [] message.type = "FileOpened" -> update_FileOpened(self, message.result)
      [] message.type = "Save"       -> update_Save(self)
      [] message.type = "FileSaved"  -> update_FileSaved(self, message.result)

(***************************************************************************)
(* Editor::view, the status bar: the text on the left and the cursor       *)
(* position, 1-based, on the right.                                        *)
(***************************************************************************)
ErrorKind_to_string(kind) ==
    CASE kind = "NotFound"         -> "entity not found"
      [] kind = "PermissionDenied" -> "permission denied"

status(self) ==
    IF self.error # None /\ self.error[1].tag = "IoError"
    THEN ErrorKind_to_string(self.error[1].kind)
    ELSE IF self.path # None THEN self.path[1] ELSE "New File"

position(self) ==
    <<self.content.cursor.line + 1, self.content.cursor.column + 1>>

status_bar(self) == [status |-> status(self), position |-> position(self)]

(***************************************************************************)
(* The runtime.  inflight is the bag of futures spawned by Command::perform *)
(* whose message has not been handed to update yet.  Beside the future's   *)
(* arguments and its output, an entry records which messages update has    *)
(* processed since it was spawned (sawNew, sawCompletion), and whether it  *)
(* is the one future an observer follows from its spawn to its message     *)
(* (tracked).                                                              *)
(***************************************************************************)
Effect(c) ==
    [future |-> c.future, path |-> c.path, text |-> c.text, message |-> c.message,
     done |-> FALSE, result |-> NoResult, sawNew |-> FALSE, sawCompletion |-> FALSE,
     tracked |-> FALSE]

NoEffect ==
    [future |-> "", path |-> None, text |-> <<>>, message |-> "",
     done |-> FALSE, result |-> NoResult, sawNew |-> FALSE, sawCompletion |-> FALSE,
     tracked |-> FALSE]

Spawn(command) ==
    IF command = Command_none THEN EmptyBag
    ELSE SetToBag({Effect(command[1])})

RECURSIVE SumCopies(_, _)
SumCopies(B, S) ==
    IF S = {} THEN 0
    ELSE LET x == CHOOSE y \in S : TRUE
         IN  B[x] + SumCopies(B, S \ {x})

Completions == {"FileOpened", "FileSaved"}

(* What an entry still in flight records once update processed message. *)
Seen(e, message) ==
    [e EXCEPT !.sawNew = @ \/ message.type = "New",
              !.sawCompletion = @ \/ message.type \in Completions]

(* The bag of Seen(e, message) for the entries e of B. *)
SeenAll(B, message) ==
    IF message.type \in {"New"} \cup Completions
    THEN [y \in {Seen(x, message) : x \in DOMAIN B} |->
            SumCopies(B, {x \in DOMAIN B : Seen(x, message) = y})]
    ELSE B

Self == [content |-> content, error |-> error, path |-> path]

Message(type, action, result) == [type |-> type, action |-> action, result |-> result]

(***************************************************************************)
(* Besides the Editor, the futures and the files, the state records the    *)
(* last message update processed with the error shown before it (msg), and *)
(* whether the document in the buffer has been read from or written to a   *)
(* file (located).                                                         *)
(***************************************************************************)
Init ==
    /\ content = Editor_new.state.content
    /\ error = Editor_new.state.error
    /\ path = Editor_new.state.path
    /\ inflight = Spawn(Editor_new.command)
    /\ fs \in [Paths -> {None} \cup {Some(f) : f \in InitialFiles}]
    /\ msg = [type |-> "Init", ok |-> FALSE, before |-> None]
    /\ located = FALSE

(* The iced runtime calls update(message) and spawns the Command returned; *)
(* rest are the futures in flight beside the one whose output message is,  *)
(* and effect is that one.                                                 *)
Process(message, rest, effect) ==
    LET r == update(Self, message)
    IN  /\ Fits(r.state.content)
        /\ BagCardinality(rest (+) Spawn(r.command)) <= MaxInflight
        /\ content' = r.state.content
        /\ error' = r.state.error
        /\ path' = r.state.path
        /\ inflight' = SeenAll(rest, message) (+) Spawn(r.command)
        /\ msg' = [type |-> message.type, ok |-> message.result.ok, before |-> error]
        /\ located' = CASE message.type = "New" -> FALSE
                        [] message.type = "FileOpened" /\ message.result.ok -> TRUE
                        [] message.type = "FileSaved" /\ message.result.ok ->
                             located \/ ~effect.sawNew
                        [] OTHER -> located
        /\ fs' = fs

Edit_whenIdle(action) ==
    /\ inflight = EmptyBag
    /\ Process(Message("Edit", action, NoResult), inflight, NoEffect)

(* The user types, moves the cursor, or presses one of the three buttons.  *)
Edit(action) == Process(Message("Edit", action, NoResult), inflight, NoEffect)

New == Process(Message("New", NoAction, NoResult), inflight, NoEffect)

Open == Process(Message("Open", NoAction, NoResult), inflight, NoEffect)

Save == Process(Message("Save", NoAction, NoResult), inflight, NoEffect)

(* The outcomes of a spawned future, with the files it leaves. *)
Outcomes(e, files) ==
    CASE e.future = "load_file" ->
           {[result |-> r, files |-> files] : r \in load_file(e.path[1], files)}
      [] e.future = "pick_file" ->
           {[result |-> r, files |-> files] : r \in pick_file(files)}
      [] e.future = "save_file" -> save_file(e.path, e.text, files)

(* A spawned future runs to its end on the executor. *)
Run(e) ==
    /\ ~e.done
    /\ \E o \in Outcomes(e, fs) :
          /\ fs' = o.files
          /\ inflight' = (inflight (-) SetToBag({e}))
                           (+) SetToBag({[e EXCEPT !.done = TRUE, !.result = o.result]})
    /\ msg' = [type |-> "Run", ok |-> FALSE, before |-> error]
    /\ UNCHANGED <<content, error, path, located>>

Deliver_okOnly(e) ==
    /\ e.done
    /\ e.result.ok
    /\ Process(Message(e.message, NoAction, e.result), inflight (-) SetToBag({e}), e)

(* The runtime hands the output of a finished future to update. *)
Deliver(e) ==
    /\ e.done
    /\ Process(Message(e.message, NoAction, e.result), inflight (-) SetToBag({e}), e)

Next ==
    \/ \E action \in Actions : Edit(action)
    \/ New
    \/ Open
    \/ Save
    \/ \E e \in BagToSet(inflight) : Run(e)
    \/ \E e \in BagToSet(inflight) : Deliver(e)

Spec == Init /\ [][Next]_vars

(***************************************************************************)
(* The executor.  iced hands every future of Command::perform to the tokio *)
(* executor, which polls it until it resolves, and the runtime forwards    *)
(* each output to update; the file dialog resolves when the user closes    *)
(* it.  FairSpec states this for one future the observer follows, chosen   *)
(* freely among those just spawned.                                        *)
(***************************************************************************)
Tracked(B) == {e \in BagToSet(B) : e.tracked}

Track(e) ==
    /\ Tracked(inflight) = {}
    /\ ~e.done /\ ~e.sawNew /\ ~e.sawCompletion
    /\ inflight' = (inflight (-) SetToBag({e}))
                     (+) SetToBag({[e EXCEPT !.tracked = TRUE]})
    /\ UNCHANGED <<content, error, path, fs, msg, located>>

FairNext ==
    \/ Next
    \/ \E e \in BagToSet(inflight) : Track(e)

FairSpec ==
    /\ Init
    /\ [][FairNext]_vars
    /\ WF_vars(\E e \in Tracked(inflight) : Run(e))
    /\ WF_vars(\E e \in Tracked(inflight) : Deliver(e))

(***************************************************************************)
(* The buffer alone.  BufferSpec hands update the messages that touch the  *)
(* buffer, in any order: Edit(action), New, and FileOpened(Ok(..)) with    *)
(* any text a file can hold, over buffers of several lines.  The futures   *)
(* and the files stay as they are at startup.                              *)
(***************************************************************************)
FitsBuf(c) ==
    /\ Len(c.lines) <= MaxBufLines
    /\ \A i \in 1..Len(c.lines) : Len(c.lines[i]) <= MaxBufLen

BufLines == UNION {[1..k -> Chars] : k \in 0..MaxBufLen}

BufTexts == {JoinLines(ls) : ls \in UNION {[1..n -> BufLines] : n \in 1..MaxBufLines}}

Apply(message) ==
    LET r == update(Self, message)
    IN  /\ FitsBuf(r.state.content)
        /\ r.command = Command_none
        /\ content' = r.state.content
        /\ error' = r.state.error
        /\ path' = r.state.path
        /\ msg' = [type |-> message.type, ok |-> message.result.ok, before |-> error]
        /\ located' = CASE message.type = "New" -> FALSE
                        [] message.type = "FileOpened" -> TRUE
                        [] OTHER -> located
        /\ UNCHANGED <<inflight, fs>>

BufEdit(action) == Apply(Message("Edit", action, NoResult))

BufNew == Apply(Message("New", NoAction, NoResult))

BufOpened(text) == Apply(Message("FileOpened", NoAction, OkOpened(default_file, text)))

BufNext ==
    \/ \E action \in Actions : BufEdit(action)
    \/ BufNew
    \/ \E text \in BufTexts : BufOpened(text)

BufferSpec == Init /\ [][BufNext]_vars

(***************************************************************************)
(* Properties.                                                             *)
(***************************************************************************)

(* The step hands the output of e to update. *)
Delivered(e) ==
    /\ msg'.type \in Completions
    /\ Deliver(e)

(* The step runs the future e to the output result. *)
Ran(e, result) ==
    /\ msg'.type = "Run"
    /\ Run(e)
    /\ inflight' = (inflight (-) SetToBag({e}))
                     (+) SetToBag({[e EXCEPT !.done = TRUE, !.result = result]})

Results == {Err(x) : x \in Errors} \cup {OkSaved(p) : p \in Paths}

(* C1: after update processes FileOpened(Ok(..)) or FileSaved(Ok(..)),     *)
(* last_error is None, whatever error was stored before.                   *)
C1_SuccessClearsError ==
    (msg.type \in Completions /\ msg.ok) => error = None

(* C2: at most one effect is outstanding at any time: the number of        *)
(* futures spawned (the startup load included) and not yet delivered is 0  *)
(* or 1.                                                                   *)
C2_AtMostOneEffect ==
    BagCardinality(inflight) <= 1

(* C3: if New is processed while an effect is in flight, the later         *)
(* completion of that effect is ignored: processing it leaves the buffer   *)
(* and path as they were.                                                  *)
C3_StaleCompletionIgnored ==
    [][\A e \in BagToSet(inflight) :
          (Delivered(e) /\ e.sawNew) => (content' = content /\ path' = path)]_vars

(* C4: update applies every completion with no staleness check: whatever   *)
(* was processed since the future was spawned, FileOpened(Ok) replaces     *)
(* path and buffer, FileSaved(Ok) replaces path, and Err replaces          *)
(* last_error.                                                             *)
C4_CompletionAlwaysApplied ==
    [][\A e \in BagToSet(inflight) :
          Delivered(e) =>
            IF e.result.ok
            THEN /\ path' = Some(e.result.path)
                 /\ content' = IF e.message = "FileOpened"
                               THEN Content_with(e.result.content) ELSE content
                 /\ error' = error
            ELSE /\ error' = Some(e.result.error)
                 /\ path' = path
                 /\ content' = content]_vars

(* A completion spawned before a New has been applied to the new document. *)
C4_Witness ==
    /\ msg.type = "FileSaved"
    /\ msg.ok
    /\ path # None
    /\ ~located

(* C5: edits are never blocked: in every state, with any number of futures *)
(* in flight, an Edit(action) is accepted, and processing it applies the   *)
(* action to the buffer and changes neither path nor the futures in flight *)
(* nor the files.                                                          *)
C5_EditsNeverBlocked ==
    /\ [](\A a \in Actions : Fits(Content_edit(content, a)) => ENABLED Edit(a))
    /\ [][\A a \in Actions :
            (msg'.type = "Edit" /\ Edit(a)) =>
               /\ content' = Content_edit(content, a)
               /\ path' = path
               /\ inflight' = inflight
               /\ fs' = fs]_vars

(* A character was typed while two futures were in flight. *)
C5_Witness ==
    /\ msg.type = "Edit"
    /\ BagCardinality(inflight) = 2
    /\ Content_text(content) = <<"a">>

(* C6: every Edit(action) sets last_error to None. *)
C6_EditClearsError ==
    msg.type = "Edit" => error = None

(* An Edit was processed while an error was shown. *)
C6_Witness ==
    /\ msg.type = "Edit"
    /\ msg.before \in {Some(x) : x \in Errors}
    /\ error = None

(* C7: path is None exactly when the document in the buffer has never been *)
(* opened from or saved to a file.                                         *)
C7_PathNoneIffUntitled ==
    (path = None) <=> ~located

(* The entry update_Save spawns in the current state, as the claim has it. *)
Snapshot ==
    [NoEffect EXCEPT !.future = "save_file", !.message = "FileSaved",
                     !.path = path, !.text = Content_text(content)]

SaveEffects(B) == {e \in BagToSet(B) : e.future = "save_file"}

(* C8: Save captures a snapshot: processing Save changes none of buffer,   *)
(* path and last_error and spawns save_file with the buffer text and path  *)
(* of that moment; whatever is processed before the future runs leaves its *)
(* text and path alone; and when it runs it writes that text and nothing   *)
(* else, to the captured path if there is one, and asks the dialog only if *)
(* there is none.                                                          *)
C8_SaveSnapshot ==
    [][/\ (msg'.type = "Save" /\ Save) =>
                  /\ inflight' = inflight (+) SetToBag({Snapshot})
                  /\ content' = content /\ path' = path /\ error' = error
       /\ \A e \in SaveEffects(inflight) :
            /\ ~Delivered(e) =>
                 \E d \in SaveEffects(inflight') : d.text = e.text /\ d.path = e.path
            /\ \A r \in Results :
                 Ran(e, r) =>
                   /\ r = Err(DialogError) => e.path = None
                   /\ e.path # None /\ r.ok => r.path = e.path[1]
                   /\ fs' = IF r.ok THEN [fs EXCEPT ![r.path] = Some(e.text)] ELSE fs]_vars

(* A save wrote the text captured before a New and an Edit, not the text   *)
(* of the buffer at the time of the write.                                 *)
C8_Witness ==
    \E e \in SaveEffects(inflight) :
        /\ e.done /\ e.result.ok /\ e.sawNew
        /\ e.text = <<>>
        /\ fs[e.result.path] = Some(e.text)
        /\ Content_text(content) = <<"a">>

(* C9: when Save is processed with path = None and the save dialog is      *)
(* cancelled, no file is written and the completion is                     *)
(* FileSaved(Err(DialogError)); processing it sets last_error to           *)
(* DialogError and leaves path alone, which is still None if no other      *)
(* completion was processed in between.                                    *)
C9_SaveDialogCancelled ==
    [][\A e \in SaveEffects(inflight) :
          /\ (~e.done /\ e.path = None) =>
               /\ [result |-> Err(DialogError), files |-> fs] \in Outcomes(e, fs)
               /\ ~e.sawCompletion => path = None
          /\ Ran(e, Err(DialogError)) => fs' = fs
          /\ (Delivered(e) /\ e.result = Err(DialogError)) =>
               /\ e.message = "FileSaved"
               /\ error' = Some(DialogError)
               /\ path' = path
               /\ (e.path = None /\ ~e.sawCompletion) => path' = None]_vars

(* The save dialog of an untitled document was cancelled: no file exists,  *)
(* the error is shown and the document is still untitled.                  *)
C9_Witness ==
    /\ msg.type = "FileSaved"
    /\ ~msg.ok
    /\ error = Some(DialogError)
    /\ path = None
    /\ \A p \in Paths : fs[p] = None
    /\ Content_text(content) = <<"a">>

(* C10: processing FileOpened(Err(e)) sets last_error = e, leaves the      *)
(* buffer (text and cursor) and path unchanged, and spawns nothing.        *)
C10_OpenErrorKeepsDocument ==
    [][\A e \in BagToSet(inflight) :
          (Delivered(e) /\ e.message = "FileOpened" /\ ~e.result.ok) =>
             /\ error' = Some(e.result.error)
             /\ content' = content
             /\ path' = path
             /\ BagCardinality(inflight') = BagCardinality(inflight) - 1]_vars

(* An open failed while a document with text and a path was in the buffer. *)
C10_Witness ==
    /\ msg.type = "FileOpened"
    /\ ~msg.ok
    /\ error \in {Some(x) : x \in Errors}
    /\ path = Some(default_file)
    /\ content = [lines |-> << <<"a">> >>, cursor |-> [line |-> 0, column |-> 1]]

(* C11: processing FileOpened(Ok(path, content)) sets path = Some(path),    *)
(* replaces the whole buffer by Content::with(content), whatever text and  *)
(* cursor it had, with the cursor at (0, 0), and spawns nothing.           *)
C11_OpenedReplacesDocument ==
    [][\A e \in BagToSet(inflight) :
          (Delivered(e) /\ e.message = "FileOpened" /\ e.result.ok) =>
             /\ path' = Some(e.result.path)
             /\ content'.lines = SplitLines(e.result.content, <<>>)
             /\ Content_text(content') = e.result.content
             /\ content'.cursor = [line |-> 0, column |-> 0]
             /\ error' = error
             /\ BagCardinality(inflight') = BagCardinality(inflight) - 1]_vars

(* An empty file was opened while a save of the text "a" typed before was  *)
(* still in flight: the buffer is the empty one, the cursor at the start.  *)
C11_Witness ==
    /\ msg.type = "FileOpened"
    /\ msg.ok
    /\ path = Some(default_file)
    /\ content = Content_with(<<>>)
    /\ \E e \in SaveEffects(inflight) : e.text = <<"a">> /\ ~e.sawNew

Texts == UNION {[1..n -> Chars \cup {NL}] : n \in 0..(MaxLines * (MaxLen + 1) - 1)}

Opened == {OkOpened(p, t) : p \in Paths, t \in Texts}

C14_SavedKeepsBuffer ==
    [][\A e \in BagToSet(inflight) :
          (Delivered(e) /\ e.message = "FileSaved") =>
             /\ content' = content
             /\ IF e.result.ok
                THEN path' = Some(e.result.path) /\ error' = error
                ELSE error' = Some(e.result.error) /\ path' = path
             /\ BagCardinality(inflight') = BagCardinality(inflight) - 1]_vars

(* A save of the untitled text "a" succeeded: the buffer still holds "a"   *)
(* with the cursor behind it, and has the path.                            *)
C14_Witness ==
    /\ msg.type = "FileSaved"
    /\ msg.ok
    /\ located
    /\ path = Some(default_file)
    /\ fs[default_file] = Some(<<"a">>)
    /\ content = [lines |-> << <<"a">> >>, cursor |-> [line |-> 0, column |-> 1]]

(* C15: all failures are presented to the user: whenever last_error is     *)
(* Some(e), an IoError or a DialogError, the status bar shows a text made  *)
(* from e, not the path or "New File".                                     *)
C15_AllFailuresShown ==
    error # None =>
       /\ status_bar(Self).status \notin {"New File"} \cup Paths
       /\ error[1].tag = "IoError" =>
             status_bar(Self).status = ErrorKind_to_string(error[1].kind)

C17_NewResetsDocumentOnly ==
    [][(msg'.type = "New" /\ New) =>
          /\ path' = None
          /\ content' = Content_new
          /\ error' = error
          /\ fs' = fs
          /\ BagCardinality(inflight') = BagCardinality(inflight)
          /\ \A e \in BagToSet(inflight) :
                CopiesIn([e EXCEPT !.sawNew = TRUE], inflight') >= CopiesIn(e, inflight)]_vars

(* New was pressed while an error was shown and two futures were in        *)
(* flight: the error is still shown and both are still in flight.          *)
C17_Witness ==
    /\ msg.type = "New"
    /\ msg.before \in {Some(x) : x \in Errors}
    /\ error = msg.before
    /\ path = None
    /\ content = Content_new
    /\ BagCardinality(inflight) = 2
    /\ \A e \in BagToSet(inflight) : e.sawNew

(* The messages update can be handed. *)
Messages ==
    {Message("Edit", a, NoResult) : a \in Actions}
    \cup {Message(t, NoAction, NoResult) : t \in {"New", "Open", "Save"}}
    \cup {Message("FileOpened", NoAction, r) : r \in Opened \cup {Err(x) : x \in Errors}}
    \cup {Message("FileSaved", NoAction, r) : r \in Results}

(* C18: each message processed spawns no future or one, and only Open and  *)
(* Save spawn one: update returns Command::none() for Edit, New and every  *)
(* FileOpened and FileSaved, Ok or Err, so that the futures in flight grow *)
(* by one with Open (a pick_file) and Save (a save_file), shrink by the    *)
(* one delivered with a completion, and are as many as before otherwise.   *)
C18_OnlyOpenAndSaveSpawn ==
    /\ [](\A m \in Messages :
            (update(Self, m).command # Command_none) <=> m.type \in {"Open", "Save"})
    /\ [][LET spawned == BagCardinality(inflight') - BagCardinality(inflight)
          IN  CASE msg'.type = "Open" ->
                     /\ spawned = 1
                     /\ \E e \in BagToSet(inflight') :
                           /\ e.future = "pick_file" /\ ~e.done
                           /\ CopiesIn(e, inflight') = CopiesIn(e, inflight) + 1
                [] msg'.type = "Save" ->
                     /\ spawned = 1
                     /\ \E e \in BagToSet(inflight') :
                           /\ e.future = "save_file" /\ ~e.done
                           /\ CopiesIn(e, inflight') = CopiesIn(e, inflight) + 1
                [] msg'.type \in Completions -> spawned = -1
                [] OTHER -> spawned = 0]_vars

(* A save failed and its message was processed: the error is stored and    *)
(* nothing is in flight, the save is not tried again.                      *)
C18_Witness ==
    /\ msg.type = "FileSaved"
    /\ ~msg.ok
    /\ error = Some(IoError("PermissionDenied"))
    /\ inflight = EmptyBag

(* The editor is as Editor::new left it: the empty buffer, no path, no     *)
(* error, and in flight the load of default_file() alone, which no New and *)
(* no completion has overtaken.                                            *)
AtStartup ==
    /\ content = Content_new
    /\ path = None
    /\ error = None
    /\ BagCardinality(inflight) = 1
    /\ \A e \in BagToSet(inflight) :
          /\ e.future = "load_file" /\ e.path = Some(default_file)
          /\ e.message = "FileOpened"
          /\ ~e.sawNew /\ ~e.sawCompletion

(* C19: startup.  The initial state is the empty buffer with path = None   *)
(* and last_error = None and exactly one future in flight, the load of the *)
(* default path, not yet run.  If the file is missing the load resolves to *)
(* Err(IoError(NotFound)); and if the load fails while the editor is still *)
(* as at startup, processing its message leaves last_error = that IoError, *)
(* path = None, the buffer the initial empty buffer, nothing in flight.    *)
C19_Startup ==
    /\ AtStartup /\ \A e \in BagToSet(inflight) : ~e.done
    /\ [][\A e \in BagToSet(inflight) :
            /\ (AtStartup /\ fs[default_file] = None /\ msg'.type = "Run" /\ Run(e))
                  => Ran(e, Err(IoError("NotFound")))
            /\ (AtStartup /\ Delivered(e) /\ ~e.result.ok) =>
                  /\ e.result.error \in {IoError(k) : k \in IoKinds}
                  /\ error' = Some(e.result.error)
                  /\ path' = None
                  /\ content' = Content_new
                  /\ inflight' = EmptyBag]_vars

(* main.rs was missing at startup: the error is IoError(NotFound), the     *)
(* buffer is empty and untitled, nothing is in flight.                     *)
C19_Witness ==
    /\ msg = [type |-> "FileOpened", ok |-> FALSE, before |-> None]
    /\ error = Some(IoError("NotFound"))
    /\ path = None
    /\ content = Content_new
    /\ inflight = EmptyBag
    /\ fs[default_file] = None

(* C20: no lost update through a path that does not belong to the buffer:  *)
(* whenever path = Some(p), the document in the buffer is one that was     *)
(* loaded from or saved to a file, edited since at most; so that a Save    *)
(* with a path is always a save of that file's own document.               *)
C20_NoLostUpdate ==
    /\ [](path # None => located)
    /\ [][(msg'.type = "Save" /\ Save /\ path # None) =>
             /\ located
             /\ \E e \in SaveEffects(inflight') :
                   e.path = path /\ e.text = Content_text(content)]_vars

====
